---- MODULE Spec2Model ----
(***************************************************************************)
(* A model of the two MCP inference gateways of llama-spark-plugin:        *)
(*   mcp/llama_mcp_server.py  (state file + /proc validation, llama.cpp)   *)
(*   mcp/vllm_mcp_server.py   (fixed URL, model catalog, vLLM)             *)
(* Each tool is a coroutine.  It runs from its entry to its first awaited  *)
(* HTTP call in one step, and from the answer of that call to the next     *)
(* awaited call or to its return in one step.                              *)
(*                                                                         *)
(* Spec            one gateway, its tools called one after the other       *)
(* SpecConcurrent  two vLLM tool calls interleaving at their awaits        *)
(* SpecRegistry    scripts/registry.py: add and save, system call by call  *)
(***************************************************************************)
EXTENDS Integers, Sequences, FiniteSets, TLC

VARIABLES
    server,       \* which program this behaviour is a run of
    stateFile,    \* content of ~/.llama-server-state.json
    procTable,    \* /proc/<pid>/cmdline, for the pids of Pids
    model_cache,  \* vllm_mcp_server._model_cache
    pc,           \* position of the tool coroutine
    tool,         \* the tool being run
    args,         \* its arguments
    state,        \* local `state` of the llama tools
    base_url,     \* local `base_url` (llama) / VLLM_URL (vllm)
    sent,         \* HTTP requests issued by the current invocation
    received,     \* what each of them came back with
    result,       \* how the tool function ended
    prev,         \* history: the status call that came right before
    disk,         \* the registry's config directory: models.json and the temp file
    caller        \* the registry command that called save_config, and its args

vars == <<server, stateFile, procTable, model_cache, pc, tool, args,
          state, base_url, sent, received, result, prev, disk, caller>>

(***************************************************************************)
(* Python values (what json.loads produces, and str / None arguments).     *)
(***************************************************************************)
None == [t |-> "null"]
Str(s) == [t |-> "str", s |-> s]
Num(n) == [t |-> "num", n |-> n]
List(l) == [t |-> "list", l |-> l]
Dict(f) == [t |-> "obj", f |-> f]
EmptyDict == Dict(<<>>)

\* bool(v): the truth value Python's `if v` / `not v` uses
Truthy(v) ==
    CASE v.t = "null" -> FALSE
      [] v.t = "str"  -> v.s # ""
      [] v.t = "num"  -> v.n # 0
      [] v.t = "list" -> v.l # <<>>
      [] v.t = "obj"  -> DOMAIN v.f # {}

\* only a dict has .get; on anything else the attribute lookup raises
HasGet(v) == v.t = "obj"

\* d.get(k, default)
Get(d, k, default) == IF k \in DOMAIN d.f THEN d.f[k] ELSE default

\* hash(v) succeeds (needed by `in` on a frozenset)
Hashable(v) == v.t \notin {"list", "obj"}

\* str(v), as an f-string field formats it
Format(v) ==
    CASE v.t = "null" -> "None"
      [] v.t = "str"  -> v.s
      [] v.t = "num"  -> ToString(v.n)
      [] v.t = "list" -> IF v.l = <<>> THEN "[]" ELSE "[...]"
      [] v.t = "obj"  -> IF DOMAIN v.f = {} THEN "{}" ELSE "{...}"

\* f"{x}" of a float with an integral value: 120.0 -> "120.0"
FormatFloat(n) == ToString(n) \o ".0"

\* json.dumps(obj, indent=2): a str; its text is kept as the document
Dumps(obj) == [t |-> "str", s |-> "<json>", doc |-> obj]

StartsWith(s, p) == Len(s) >= Len(p) /\ SubSeq(s, 1, Len(p)) = p

(***************************************************************************)
(* How a function ends.                                                    *)
(***************************************************************************)
Return(v) == [ret |-> "return", val |-> v]
Raise(e) == [ret |-> "raise", exc |-> e]
NoResult == [ret |-> "none"]

(***************************************************************************)
(* Program constants.                                                      *)
(***************************************************************************)
DEFAULT_TIMEOUT == 120
PROBE_TIMEOUT == 5
DEFAULT_PORT == 30000
DEFAULT_HOST == "127.0.0.1"
ALLOWED_HOSTS == {Str("127.0.0.1"), Str("localhost"), Str("0.0.0.0"), Str("::1")}
VLLM_URL == "http://localhost:8000"

(***************************************************************************)
(* Bounds of the model.                                                    *)
(***************************************************************************)
MaxMsgs == 2      \* longest `messages` list a caller passes

(***************************************************************************)
(* The environment of the llama server: the state file and /proc.          *)
(***************************************************************************)
Missing == [t |-> "missing"]

\* a JSON object holding the fields of r that are not Missing
MkDict(r) == Dict([k \in {j \in DOMAIN r : r[j] # Missing} |-> r[k]])

Pids == {4242}                       \* the pids /proc may have an entry for
LivePid == CHOOSE p \in Pids : TRUE
DeadPid == LivePid + 1               \* a pid /proc never has an entry for

HostValues ==
    {Missing, None, Str("evil.example"), List(<<Str("evil.example")>>)}
        \cup ALLOWED_HOSTS
PortValues == {Missing, Num(8080)}

StateObjects ==
    {MkDict([pid |-> Num(LivePid), host |-> h, port |-> p,
             model |-> Missing, started_at |-> Missing]) :
        h \in HostValues, p \in PortValues}
    \cup {MkDict([pid |-> q, host |-> Missing, port |-> Missing,
                  model |-> Missing, started_at |-> Missing]) :
        q \in {Missing, Num(0), Num(DeadPid)}}
    \cup {MkDict([pid |-> Num(LivePid), host |-> Str("localhost"),
                  port |-> Num(8080), model |-> Str("qwen"),
                  started_at |-> Str("2025-01-01T00:00:00")])}

\* what STATE_FILE.exists() / read_text() / json.loads meet:
\*   absent   no such file
\*   ioerror  the file exists and read_text raises OSError
\*   badutf8  the bytes are not valid UTF-8 (read_text raises UnicodeDecodeError)
\*   badjson  text that json.loads rejects (JSONDecodeError)
\*   json     text that json.loads turns into val
File(kind, val) == [val |-> val, kind |-> kind]
FileContents ==
    {File(k, None) : k \in {"absent", "ioerror", "badutf8", "badjson"}}
    \cup {File("json", v) : v \in StateObjects \cup {List(<<>>), Num(7)}}

\* a /proc/<pid>/cmdline entry: exists() / read_text() / "llama-server" in cmdline
ProcEntry(exists, readable, decodable, hasName) ==
    [exists |-> exists, readable |-> readable, decodable |-> decodable,
     hasName |-> hasName]
NoEntry == ProcEntry(FALSE, FALSE, FALSE, FALSE)
ProcEntries ==
    {NoEntry,
     ProcEntry(TRUE, FALSE, FALSE, FALSE),   \* vanished before the read: OSError
     ProcEntry(TRUE, TRUE, FALSE, FALSE),    \* argv bytes that are not UTF-8
     ProcEntry(TRUE, TRUE, FALSE, TRUE),     \* llama-server, argv not UTF-8
     ProcEntry(TRUE, TRUE, TRUE, FALSE),     \* some other program (recycled pid)
     ProcEntry(TRUE, TRUE, TRUE, TRUE)}      \* llama-server
ProcTables == [Pids -> ProcEntries]

\* Path(f"/proc/{pid}/cmdline") looked up in the process table
Cmdline(table, pid) ==
    IF pid.t = "num" /\ pid.n \in DOMAIN table THEN table[pid.n] ELSE NoEntry

(***************************************************************************)
(* State Reader and Location Resolver.                                     *)
(***************************************************************************)
\* read_state that trusts the running report of the status call before it
read_state_cached(file, table) ==
    IF prev.tool = "llama_status" /\ prev.result.ret = "return"
          /\ "doc" \in DOMAIN prev.result.val
    THEN Return(Dict([pid |-> Num(LivePid)]))
    ELSE IF file.kind = "absent" THEN Return(None)
    ELSE IF file.kind \in {"ioerror", "badjson"} THEN Return(None)
    ELSE IF file.kind = "badutf8" THEN Raise("UnicodeDecodeError")
    ELSE IF ~HasGet(file.val) THEN Raise("AttributeError")
    ELSE LET pid == Get(file.val, "pid", None)
             entry == Cmdline(table, pid)
         IN  IF ~Truthy(pid) THEN Return(None)
             ELSE IF ~entry.exists THEN Return(None)
             ELSE IF ~entry.readable THEN Return(None)
             ELSE IF ~entry.decodable THEN Raise("UnicodeDecodeError")
             ELSE IF ~entry.hasName THEN Return(None)
             ELSE Return(file.val)

read_state(file, table) ==
    IF file.kind = "absent" THEN Return(None)
    ELSE IF file.kind \in {"ioerror", "badjson"} THEN Return(None)
    ELSE IF file.kind = "badutf8" THEN Raise("UnicodeDecodeError")
    ELSE IF ~HasGet(file.val) THEN Raise("AttributeError")
    ELSE LET pid == Get(file.val, "pid", None)
             entry == Cmdline(table, pid)
         IN  IF ~Truthy(pid) THEN Return(None)
             ELSE IF ~entry.exists THEN Return(None)
             ELSE IF ~entry.readable THEN Return(None)
             ELSE IF ~entry.decodable THEN Raise("UnicodeDecodeError")
             ELSE IF ~entry.hasName THEN Return(None)
             ELSE Return(file.val)

HostRejectedText(host) ==
    "Error: Host '" \o Format(host) \o "' not allowed. Only loopback addresses permitted."

\* returns the pair (url, error_message)
get_base_url(st) ==
    LET host == Get(st, "host", Str(DEFAULT_HOST))
        port == Get(st, "port", Num(DEFAULT_PORT))
    IN  IF ~Hashable(host) THEN Raise("TypeError")
        ELSE IF host \notin ALLOWED_HOSTS
             THEN Return(<<"", Str(HostRejectedText(host))>>)
        ELSE Return(<<"http://" \o Format(host) \o ":" \o Format(port), None>>)

(***************************************************************************)
(* HTTP: what an awaited client.get / client.post can come back with.      *)
(***************************************************************************)
Request(method, url, timeout, json) ==
    [method |-> method, url |-> url, timeout |-> timeout, json |-> json]

\* an httpx exception raised by the call
Fault(exc, msg) == [exc |-> exc, kind |-> "fault", msg |-> msg]
\* an HTTP response; parsed is what resp.json() gives for text
Response(status, ctype, text, parsed) ==
    [kind |-> "response", status |-> status, ctype |-> ctype, text |-> text,
     parsed |-> parsed]
InvalidJSON == [t |-> "invalid"]     \* resp.json() raises json.JSONDecodeError
JSONDecodeErrorText == "Expecting value: line 1 column 1 (char 0)"

\* httpx exception hierarchy, as far as the except clauses tell classes apart
IsTimeoutException(exc) == exc \in {"ConnectTimeout", "ReadTimeout"}
IsRequestError(exc) == IsTimeoutException(exc) \/ exc \in {"ConnectError", "ReadError"}

Faults ==
    {Fault("ConnectError", "All connection attempts failed"),
     Fault("ReadTimeout", "")}

\* resp.raise_for_status() raises HTTPStatusError
IsErrorStatus(status) == status \notin 200..299

\* text[:n]
Truncate(text, n) == IF Len(text) > n THEN SubSeq(text, 1, n) ELSE text

\* v[0]
Index0(v) ==
    CASE v.t = "list" -> IF v.l = <<>> THEN Raise("IndexError") ELSE Return(v.l[1])
      [] v.t = "str"  -> IF v.s = "" THEN Raise("IndexError")
                         ELSE Return(Str(SubSeq(v.s, 1, 1)))
      [] v.t = "obj"  -> Raise("KeyError")
      [] OTHER        -> Raise("TypeError")

HealthResponses ==
    Faults \cup
    {Response(200, "application/json", "{\"status\":\"ok\"}",
              Dict([status |-> Str("ok")])),
     Response(200, "application/json", "ok", InvalidJSON),
     Response(200, "text/plain", "ok", InvalidJSON),
     Response(503, "application/json", "{\"error\":\"loading\"}",
              Dict([error |-> Str("loading")]))}

ChatBodies ==
    {<<"<html>", InvalidJSON>>,
     <<"[]", List(<<>>)>>,
     <<"{}", EmptyDict>>,
     <<"{\"choices\":[]}", Dict([choices |-> List(<<>>)])>>,
     <<"{\"choices\":[{\"message\":{\"content\":\"hello\"}}]}",
       Dict([choices |-> List(<<Dict([message |-> Dict([content |-> Str("hello")])])>>)])>>,
     <<"{\"choices\":[{\"text\":\"hello\"}]}",
       Dict([choices |-> List(<<Dict([text |-> Str("hello")])>>)])>>,
     <<"{\"choices\":[5]}", Dict([choices |-> List(<<Num(5)>>)])>>,
     <<"{\"choices\":{\"a\":1}}", Dict([choices |-> Dict([a |-> Num(1)])])>>,
     <<"{\"choices\":[{\"message\":null,\"text\":null}]}",
       Dict([choices |-> List(<<Dict([text |-> None, message |-> None])>>)])>>,
     <<"{\"choices\":[{\"message\":{\"content\":null}}]}",
       Dict([choices |-> List(<<Dict([message |-> Dict([content |-> None])])>>)])>>,
     <<"{\"content\":\"hello\"}", Dict([content |-> Str("hello")])>>}

\* answers to a POST to a generation endpoint
\* an error page longer than the excerpt a tool reports
RECURSIVE Repeat(_, _)
Repeat(s, n) == IF n = 0 THEN "" ELSE s \o Repeat(s, n - 1)
LongBody == "<html>" \o Repeat("overloaded ", 50)

PostResponses ==
    Faults \cup
    {Response(500, "text/plain", "Internal Server Error", InvalidJSON),
     Response(503, "text/html", LongBody, InvalidJSON),
     Response(302, "text/plain", "", InvalidJSON)} \cup
    {Response(200, "application/json", b[1], b[2]) : b \in ChatBodies}

(***************************************************************************)
(* Tool arguments.                                                         *)
(***************************************************************************)
Bool(b) == [t |-> "bool", b |-> b]
Float(tenths) == [t |-> "float", tenths |-> tenths]    \* 0.7 is Float(7)

Message(role, content) == Dict([content |-> Str(content), role |-> Str(role)])
MsgAlphabet == {Message("system", "old rules"), Message("user", "hi")}
RECURSIVE SeqsUpTo(_, _)
SeqsUpTo(S, n) ==
    IF n = 0 THEN {<<>>}
    ELSE LET shorter == SeqsUpTo(S, n - 1)
         IN  shorter \cup {Append(q, x) : q \in shorter, x \in S}
MessageLists == {List(q) : q \in SeqsUpTo(MsgAlphabet, MaxMsgs)}
SystemPrompts == {None, Str(""), Str("be terse")}
StopLists == {None, List(<<>>), List(<<Str("END")>>)}
ModelArgs == {None, Str(""), Str("m9")}

Args(messages, system_prompt, prompt, stop, model) ==
    [model |-> model, messages |-> messages, system_prompt |-> system_prompt,
     prompt |-> prompt, stop |-> stop, temperature |-> Float(7),
     max_tokens |-> Num(2048)]
NoArgs == Args(List(<<>>), None, Str(""), None, None)
ChatArgs(messages, system_prompt, model) ==
    Args(messages, system_prompt, Str(""), None, model)
CompleteArgs(stop, model) == Args(List(<<>>), None, Str("Once upon"), stop, model)

\* temperature and max_tokens as the caller passes them: the defaults, or
\* values of its own (here 0.0 and 0)
Samplings == {<<Float(7), Num(2048)>>, <<Float(0), Num(0)>>}
WithSampling(a, s) == [a EXCEPT !.temperature = s[1], !.max_tokens = s[2]]

(***************************************************************************)
(* llama_mcp_server: the three tools.                                      *)
(***************************************************************************)
LLAMA_NOT_RUNNING_HINT == "llama-server is not running. Use /llama:serve to start it."
LLAMA_NOT_RUNNING_ERROR == "Error: llama-server is not running. Use /llama:serve to start it."
NO_RESPONSE == "Error: No response from model"
TimeoutText == "Error: Request timed out after " \o FormatFloat(DEFAULT_TIMEOUT)
                   \o "s. Model may be overloaded."
\* StatusErrorText with the whole body
StatusErrorText_whole(resp) ==
    "Error: HTTP " \o ToString(resp.status) \o " - " \o resp.text

StatusErrorText(resp) ==
    "Error: HTTP " \o ToString(resp.status) \o " - " \o Truncate(resp.text, 500)

\* llama_entry without the `if not state` return: an absent state is taken
\* to be an empty one and the defaults apply
llama_entry_defaults(file, table, notRunning) ==
    LET rs == read_state(file, table)
        st == IF rs.ret = "return" /\ Truthy(rs.val) THEN rs.val ELSE EmptyDict
        bu == get_base_url(st)
    IN  IF rs.ret = "raise" THEN [result |-> rs, go |-> FALSE]
        ELSE IF bu.ret = "raise" THEN [result |-> bu, go |-> FALSE]
        ELSE IF Truthy(bu.val[2]) THEN [result |-> Return(bu.val[2]), go |-> FALSE]
        ELSE [base_url |-> bu.val[1], go |-> TRUE]

\* the first lines of each llama tool: _read_state, `if not state`,
\* _get_base_url, `if err`
llama_entry(file, table, notRunning) ==
    LET rs == read_state(file, table)
    IN  IF rs.ret = "raise" THEN [result |-> rs, go |-> FALSE]
        ELSE IF ~Truthy(rs.val)
             THEN [result |-> Return(Str(notRunning)), go |-> FALSE]
        ELSE LET bu == get_base_url(rs.val)
             IN  IF bu.ret = "raise" THEN [result |-> bu, go |-> FALSE]
                 ELSE IF Truthy(bu.val[2])
                      THEN [result |-> Return(bu.val[2]), go |-> FALSE]
                 ELSE [base_url |-> bu.val[1], go |-> TRUE]

\* llama_status from the answer of GET /health to the return
llama_status_result(resp, st) ==
    IF resp.kind = "fault"
    THEN IF IsRequestError(resp.exc)
         THEN Return(Str("llama-server state exists but not responding: " \o resp.msg))
         ELSE Raise(resp.exc)
    ELSE IF resp.status = 200
         THEN LET health_data ==
                      IF StartsWith(resp.ctype, "application/json")
                      THEN IF resp.parsed = InvalidJSON
                           THEN Str("ok (parse error)")
                           ELSE resp.parsed
                      ELSE Str("ok")
              IN  Return(Dumps(Dict([port |-> Get(st, "port", None),
                                     model |-> Get(st, "model", Str("unknown")),
                                     started_at |-> Get(st, "started_at", None),
                                     status |-> Str("running"),
                                     health |-> health_data])))
    ELSE Return(Str("llama-server health check failed"))

\* llama_chat_payload that prepends whenever a system prompt is given
llama_chat_payload_always(a) ==
    LET messages ==
            IF Truthy(a.system_prompt)
            THEN List(<<Dict([content |-> a.system_prompt, role |-> Str("system")])>>
                      \o a.messages.l)
            ELSE a.messages
    IN  Dict([messages |-> messages, temperature |-> a.temperature,
              max_tokens |-> a.max_tokens, stream |-> Bool(FALSE)])

llama_chat_payload(a) ==
    LET messages ==
            IF Truthy(a.system_prompt)
               /\ (~Truthy(a.messages)
                   \/ Get(a.messages.l[1], "role", None) # Str("system"))
            THEN List(<<Dict([content |-> a.system_prompt, role |-> Str("system")])>>
                      \o a.messages.l)
            ELSE a.messages
    IN  Dict([messages |-> messages, temperature |-> a.temperature,
              max_tokens |-> a.max_tokens, stream |-> Bool(FALSE)])

\* llama_chat_result without the `if not choices` return
llama_chat_result_nocheck(resp, url) ==
    IF resp.kind = "fault"
    THEN IF IsTimeoutException(resp.exc) THEN Return(Str(TimeoutText))
         ELSE IF IsRequestError(resp.exc)
              THEN Return(Str("Error: Could not connect to llama-server at "
                              \o url \o ": " \o resp.msg))
         ELSE Raise(resp.exc)
    ELSE IF IsErrorStatus(resp.status) THEN Return(Str(StatusErrorText(resp)))
    ELSE IF resp.parsed = InvalidJSON
         THEN Return(Str("Error: Invalid response from llama-server: "
                         \o JSONDecodeErrorText))
    ELSE IF ~HasGet(resp.parsed) THEN Raise("AttributeError")
    ELSE LET choices == Get(resp.parsed, "choices", List(<<>>))
             first == Index0(choices)
         IN  IF first.ret = "raise"
             THEN IF first.exc = "KeyError"
                  THEN Return(Str("Error: Invalid response from llama-server: 0"))
                  ELSE first
             ELSE IF ~HasGet(first.val) THEN Raise("AttributeError")
             ELSE LET message == Get(first.val, "message", EmptyDict)
                  IN  IF ~HasGet(message) THEN Raise("AttributeError")
                      ELSE Return(Get(message, "content", Str("")))

\* llama_chat from the answer of the POST to the return
llama_chat_result(resp, url) ==
    IF resp.kind = "fault"
    THEN IF IsTimeoutException(resp.exc) THEN Return(Str(TimeoutText))
         ELSE IF IsRequestError(resp.exc)
              THEN Return(Str("Error: Could not connect to llama-server at "
                              \o url \o ": " \o resp.msg))
         ELSE Raise(resp.exc)
    ELSE IF IsErrorStatus(resp.status) THEN Return(Str(StatusErrorText(resp)))
    ELSE IF resp.parsed = InvalidJSON
         THEN Return(Str("Error: Invalid response from llama-server: "
                         \o JSONDecodeErrorText))
    ELSE IF ~HasGet(resp.parsed) THEN Raise("AttributeError")
    ELSE LET choices == Get(resp.parsed, "choices", List(<<>>))
             first == Index0(choices)
         IN  IF ~Truthy(choices) THEN Return(Str(NO_RESPONSE))
             ELSE IF first.ret = "raise"
                  THEN IF first.exc = "KeyError"
                       THEN Return(Str("Error: Invalid response from llama-server: 0"))
                       ELSE first
             ELSE IF ~HasGet(first.val) THEN Raise("AttributeError")
             ELSE LET message == Get(first.val, "message", EmptyDict)
                  IN  IF ~HasGet(message) THEN Raise("AttributeError")
                      ELSE Return(Get(message, "content", Str("")))

\* llama_complete_payload with the OpenAI name of the token limit
llama_complete_payload_openai(a) ==
    MkDict([prompt |-> a.prompt, stop |-> IF Truthy(a.stop) THEN a.stop ELSE Missing,
            temperature |-> a.temperature, max_tokens |-> a.max_tokens,
            stream |-> Bool(FALSE)])

llama_complete_payload(a) ==
    MkDict([prompt |-> a.prompt, stop |-> IF Truthy(a.stop) THEN a.stop ELSE Missing,
            temperature |-> a.temperature, stream |-> Bool(FALSE),
            n_predict |-> a.max_tokens])

\* llama_complete from the answer of the POST to the return
llama_complete_result(resp, url) ==
    IF resp.kind = "fault"
    THEN IF IsTimeoutException(resp.exc) THEN Return(Str(TimeoutText))
         ELSE IF IsRequestError(resp.exc)
              THEN Return(Str("Error: Could not connect to llama-server at "
                              \o url \o ": " \o resp.msg))
         ELSE Raise(resp.exc)
    ELSE IF IsErrorStatus(resp.status) THEN Return(Str(StatusErrorText(resp)))
    ELSE IF resp.parsed = InvalidJSON
         THEN Return(Str("Error: Invalid response from llama-server: "
                         \o JSONDecodeErrorText))
    ELSE IF ~HasGet(resp.parsed) THEN Raise("AttributeError")
    ELSE Return(Get(resp.parsed, "content", Str("")))

(***************************************************************************)
(* Files of the registry (scripts/registry.py).  A file is the sequence of *)
(* chunks written to it.                                                   *)
(***************************************************************************)
NoFile == [exists |-> FALSE, data |-> <<>>]
NoDisk == [config_file |-> NoFile, tmp_path |-> NoFile]
\* no registry command is running
NoCaller == [tool |-> "none"]

(***************************************************************************)
(* Steps.                                                                  *)
(***************************************************************************)
\* History of the calls, as the client saw them.  prev is the status call
\* that was answered right before the current invocation: what it received
\* and how it ended; stale tells that the launcher or the operating system
\* changed the state file or the process table since.  It is forgotten when a
\* chat or complete call starts.
StatusTools == {"llama_status", "vllm_status"}
NoPrev == [tool |-> "none"]
Keep(t) == prev' = IF t \in StatusTools THEN prev ELSE NoPrev

\* the tool function returns or raises
Finish(t, a, r) ==
    /\ pc' = "done"
    /\ tool' = t
    /\ args' = a
    /\ result' = r
    /\ Keep(t)

\* Suspend that issues the request a second time
Suspend_retry(t, a, where, req) ==
    /\ pc' = where
    /\ tool' = t
    /\ args' = a
    /\ sent' = Append(Append(sent, req), req)
    /\ result' = NoResult
    /\ Keep(t)

\* the tool function suspends at an HTTP call
Suspend(t, a, where, req) ==
    /\ pc' = where
    /\ tool' = t
    /\ args' = a
    /\ sent' = Append(sent, req)
    /\ result' = NoResult
    /\ Keep(t)

LlamaCall(t, a, notRunning, where, method, path, timeout, json) ==
    /\ server = "llama"
    /\ pc = "idle"
    /\ LET e == llama_entry(stateFile, procTable, notRunning)
       IN  IF e.go
           THEN /\ Suspend(t, a, where,
                           Request(method, e.base_url \o path, timeout, json))
                /\ base_url' = e.base_url
           ELSE /\ Finish(t, a, e.result)
                /\ UNCHANGED <<base_url, sent>>
    /\ state' = LET rs == read_state(stateFile, procTable)
                IN  IF rs.ret = "return" THEN rs.val ELSE None
    /\ UNCHANGED <<caller, disk, server, stateFile, procTable, model_cache, received>>

llama_status ==
    LlamaCall("llama_status", NoArgs, LLAMA_NOT_RUNNING_HINT, "health",
              "GET", "/health", PROBE_TIMEOUT, None)

llama_status_health ==
    /\ pc = "health"
    /\ tool = "llama_status"
    /\ \E resp \in HealthResponses :
           /\ received' = Append(received, resp)
           /\ Finish(tool, args, llama_status_result(resp, state))
    /\ UNCHANGED <<caller, disk, server, stateFile, procTable, model_cache, state, base_url, sent>>

llama_chat ==
    \E m \in MessageLists, sp \in SystemPrompts, s \in Samplings :
        LET a == WithSampling(ChatArgs(m, sp, None), s)
        IN  LlamaCall("llama_chat", a, LLAMA_NOT_RUNNING_ERROR, "post",
                      "POST", "/v1/chat/completions", DEFAULT_TIMEOUT,
                      llama_chat_payload(a))

llama_chat_response ==
    /\ pc = "post"
    /\ tool = "llama_chat"
    /\ \E resp \in PostResponses :
           /\ received' = Append(received, resp)
           /\ Finish(tool, args, llama_chat_result(resp, base_url))
    /\ UNCHANGED <<caller, disk, server, stateFile, procTable, model_cache, state, base_url, sent>>

llama_complete ==
    \E st \in StopLists, s \in Samplings :
        LET a == WithSampling(CompleteArgs(st, None), s)
        IN  LlamaCall("llama_complete", a, LLAMA_NOT_RUNNING_ERROR, "post",
                      "POST", "/completion", DEFAULT_TIMEOUT,
                      llama_complete_payload(a))

llama_complete_response ==
    /\ pc = "post"
    /\ tool = "llama_complete"
    /\ \E resp \in PostResponses :
           /\ received' = Append(received, resp)
           /\ Finish(tool, args, llama_complete_result(resp, base_url))
    /\ UNCHANGED <<caller, disk, server, stateFile, procTable, model_cache, state, base_url, sent>>

(***************************************************************************)
(* vllm_mcp_server: the Model Resolver and the three tools.                *)
(***************************************************************************)
CatalogBodies ==
    {<<"<html>", InvalidJSON>>,
     <<"[]", List(<<>>)>>,
     <<"{}", EmptyDict>>,
     <<"{\"data\":[]}", Dict([data |-> List(<<>>)])>>,
     <<"{\"data\":[{\"id\":\"m1\"},{\"id\":\"m2\"}]}",
       Dict([data |-> List(<<Dict([id |-> Str("m1")]), Dict([id |-> Str("m2")])>>)])>>,
     <<"{\"data\":[{\"id\":\"m2\"},{\"id\":\"m1\"}]}",
       Dict([data |-> List(<<Dict([id |-> Str("m2")]), Dict([id |-> Str("m1")])>>)])>>,
     <<"{\"data\":[{}]}", Dict([data |-> List(<<EmptyDict>>)])>>,
     <<"{\"data\":[5]}", Dict([data |-> List(<<Num(5)>>)])>>,
     <<"{\"data\":{\"id\":\"m1\"}}", Dict([data |-> Dict([id |-> Str("m1")])])>>}

\* answers to GET /v1/models
CatalogResponses ==
    Faults \cup
    {Response(503, "text/plain", "Service Unavailable", InvalidJSON)} \cup
    {Response(200, "application/json", b[1], b[2]) : b \in CatalogBodies}

\* get_models that serves the list cached by an earlier query when there is one
get_models_cached(resp, cache) ==
    IF resp.kind = "fault"
    THEN IF IsRequestError(resp.exc)
         THEN [cache |-> cache, out |-> Return(List(<<>>))]
         ELSE [cache |-> cache, out |-> Raise(resp.exc)]
    ELSE IF resp.status # 200 THEN [cache |-> cache, out |-> Return(List(<<>>))]
    ELSE IF resp.parsed = InvalidJSON
         THEN [cache |-> cache, out |-> Return(List(<<>>))]
    ELSE IF ~HasGet(resp.parsed)
         THEN [cache |-> resp.parsed, out |-> Raise("AttributeError")]
    ELSE [cache |-> resp.parsed,
          out |-> Return(Get(IF HasGet(cache) THEN cache ELSE resp.parsed,
                             "data", List(<<>>)))]

\* _get_models from the answer of the GET: the new cache and how it ends
get_models(resp, cache) ==
    IF resp.kind = "fault"
    THEN IF IsRequestError(resp.exc)
         THEN [cache |-> cache, out |-> Return(List(<<>>))]
         ELSE [cache |-> cache, out |-> Raise(resp.exc)]
    ELSE IF resp.status # 200 THEN [cache |-> cache, out |-> Return(List(<<>>))]
    ELSE IF resp.parsed = InvalidJSON
         THEN [cache |-> cache, out |-> Return(List(<<>>))]
    ELSE IF ~HasGet(resp.parsed)
         THEN [cache |-> resp.parsed, out |-> Raise("AttributeError")]
    ELSE [cache |-> resp.parsed,
          out |-> Return(Get(resp.parsed, "data", List(<<>>)))]

\* get_default_model that answers from the cached catalog when there is one
get_default_model_cached(resp, cache) ==
    LET r == get_models(resp, cache)
        models == IF HasGet(cache) THEN Get(cache, "data", List(<<>>)) ELSE r.out.val
        first == Index0(models)
    IN  IF r.out.ret = "raise" THEN r
        ELSE IF ~Truthy(models) THEN [cache |-> r.cache, out |-> Return(None)]
        ELSE IF first.ret = "raise" THEN [cache |-> r.cache, out |-> first]
        ELSE IF ~HasGet(first.val)
             THEN [cache |-> r.cache, out |-> Raise("AttributeError")]
        ELSE [cache |-> r.cache, out |-> Return(Get(first.val, "id", None))]

\* _get_default_model from the answer of the GET
get_default_model(resp, cache) ==
    LET r == get_models(resp, cache)
        first == Index0(r.out.val)
    IN  IF r.out.ret = "raise" THEN r
        ELSE IF ~Truthy(r.out.val) THEN [cache |-> r.cache, out |-> Return(None)]
        ELSE IF first.ret = "raise" THEN [cache |-> r.cache, out |-> first]
        ELSE IF ~HasGet(first.val)
             THEN [cache |-> r.cache, out |-> Raise("AttributeError")]
        ELSE [cache |-> r.cache, out |-> Return(Get(first.val, "id", None))]

\* the elements a `for m in v` visits, or the TypeError of a non-iterable
Iterate(v) ==
    CASE v.t = "list" -> Return(v.l)
      [] v.t = "obj"  -> Return([i \in 1..Cardinality(DOMAIN v.f) |-> Str("<key>")])
      [] v.t = "str"  -> Return([i \in 1..Len(v.s) |-> Str(SubSeq(v.s, i, i))])
      [] OTHER        -> Raise("TypeError")

VLLM_NO_MODELS == "Error: vLLM server at " \o VLLM_URL \o " has no models available."
VLLM_NOT_RESPONDING ==
    "vLLM server at " \o VLLM_URL \o " is not responding or has no models loaded."

\* vllm_status from the answer of the GET to the return
vllm_status_result(resp, cache) ==
    LET r == get_models(resp, cache)
        elems == Iterate(r.out.val)
    IN  IF r.out.ret = "raise" THEN r
        ELSE IF ~Truthy(r.out.val)
             THEN [cache |-> r.cache, out |-> Return(Str(VLLM_NOT_RESPONDING))]
        ELSE IF elems.ret = "raise" THEN [cache |-> r.cache, out |-> elems]
        ELSE IF \E i \in DOMAIN elems.val : ~HasGet(elems.val[i])
             THEN [cache |-> r.cache, out |-> Raise("AttributeError")]
        ELSE LET model_list ==
                     [i \in DOMAIN elems.val |-> Get(elems.val[i], "id", Str("unknown"))]
             IN  [cache |-> r.cache,
                  out |-> Return(Dumps(Dict(
                      [url |-> Str(VLLM_URL), status |-> Str("running"),
                       models |-> List(model_list),
                       default_model |-> IF model_list # <<>>
                                         THEN model_list[1] ELSE None])))]

vllm_chat_payload(a, model) ==
    LET messages ==
            IF Truthy(a.system_prompt)
               /\ (~Truthy(a.messages)
                   \/ Get(a.messages.l[1], "role", None) # Str("system"))
            THEN List(<<Dict([content |-> a.system_prompt, role |-> Str("system")])>>
                      \o a.messages.l)
            ELSE a.messages
    IN  Dict([model |-> model, messages |-> messages,
              temperature |-> a.temperature, max_tokens |-> a.max_tokens,
              stream |-> Bool(FALSE)])

\* vllm_chat from the answer of the POST to the return
vllm_chat_result(resp) ==
    IF resp.kind = "fault"
    THEN IF IsTimeoutException(resp.exc) THEN Return(Str(TimeoutText))
         ELSE IF IsRequestError(resp.exc)
              THEN Return(Str("Error: Could not connect to vLLM at "
                              \o VLLM_URL \o ": " \o resp.msg))
         ELSE Raise(resp.exc)
    ELSE IF IsErrorStatus(resp.status) THEN Return(Str(StatusErrorText(resp)))
    ELSE IF resp.parsed = InvalidJSON
         THEN Return(Str("Error: Invalid response from vLLM: " \o JSONDecodeErrorText))
    ELSE IF ~HasGet(resp.parsed) THEN Raise("AttributeError")
    ELSE LET choices == Get(resp.parsed, "choices", List(<<>>))
             first == Index0(choices)
         IN  IF ~Truthy(choices) THEN Return(Str(NO_RESPONSE))
             ELSE IF first.ret = "raise"
                  THEN IF first.exc = "KeyError"
                       THEN Return(Str("Error: Invalid response from vLLM: 0"))
                       ELSE first
             ELSE IF ~HasGet(first.val) THEN Raise("AttributeError")
             ELSE LET message == Get(first.val, "message", EmptyDict)
                  IN  IF ~HasGet(message) THEN Raise("AttributeError")
                      ELSE Return(Get(message, "content", Str("")))

vllm_complete_payload(a, model) ==
    MkDict([model |-> model, prompt |-> a.prompt, stop |-> IF Truthy(a.stop) THEN a.stop ELSE Missing,
            temperature |-> a.temperature, max_tokens |-> a.max_tokens,
            stream |-> Bool(FALSE)])

\* vllm_complete from the answer of the POST to the return
vllm_complete_result(resp) ==
    IF resp.kind = "fault"
    THEN IF IsTimeoutException(resp.exc) THEN Return(Str(TimeoutText))
         ELSE IF IsRequestError(resp.exc)
              THEN Return(Str("Error: Could not connect to vLLM at "
                              \o VLLM_URL \o ": " \o resp.msg))
         ELSE Raise(resp.exc)
    ELSE IF IsErrorStatus(resp.status) THEN Return(Str(StatusErrorText(resp)))
    ELSE IF resp.parsed = InvalidJSON
         THEN Return(Str("Error: Invalid response from vLLM: " \o JSONDecodeErrorText))
    ELSE IF ~HasGet(resp.parsed) THEN Raise("AttributeError")
    ELSE LET choices == Get(resp.parsed, "choices", List(<<>>))
             first == Index0(choices)
         IN  IF ~Truthy(choices) THEN Return(Str(NO_RESPONSE))
             ELSE IF first.ret = "raise"
                  THEN IF first.exc = "KeyError"
                       THEN Return(Str("Error: Invalid response from vLLM: 0"))
                       ELSE first
             ELSE IF ~HasGet(first.val) THEN Raise("AttributeError")
             ELSE Return(Get(first.val, "text", Str("")))

ModelsRequest == Request("GET", VLLM_URL \o "/v1/models", PROBE_TIMEOUT, None)

vllm_status ==
    /\ server = "vllm"
    /\ pc = "idle"
    /\ Suspend("vllm_status", NoArgs, "models", ModelsRequest)
    /\ UNCHANGED <<caller, disk, server, stateFile, procTable, model_cache, state, base_url, received>>

vllm_status_models ==
    /\ pc = "models"
    /\ tool = "vllm_status"
    /\ \E resp \in CatalogResponses :
           LET r == vllm_status_result(resp, model_cache)
           IN  /\ model_cache' = r.cache
               /\ received' = Append(received, resp)
               /\ Finish(tool, args, r.out)
    /\ UNCHANGED <<caller, disk, server, stateFile, procTable, state, base_url, sent>>

\* the payload and the endpoint of a generation tool
VllmPayload(t, a, model) ==
    IF t = "vllm_chat" THEN vllm_chat_payload(a, model)
    ELSE vllm_complete_payload(a, model)
VllmPath(t) == IF t = "vllm_chat" THEN "/v1/chat/completions" ELSE "/v1/completions"

\* a chat or complete tool up to its first awaited call
VllmCall(t, a) ==
    /\ server = "vllm"
    /\ pc = "idle"
    /\ IF ~Truthy(a.model)
       THEN Suspend(t, a, "models", ModelsRequest)
       ELSE Suspend(t, a, "post",
                    Request("POST", VLLM_URL \o VllmPath(t), DEFAULT_TIMEOUT,
                            VllmPayload(t, a, a.model)))
    /\ UNCHANGED <<caller, disk, server, stateFile, procTable, model_cache, state, base_url, received>>

\* a chat or complete tool from the answer of its catalog query
VllmModels(t) ==
    /\ pc = "models"
    /\ tool = t
    /\ \E resp \in CatalogResponses :
           LET r == get_default_model(resp, model_cache)
           IN  /\ model_cache' = r.cache
               /\ received' = Append(received, resp)
               /\ IF r.out.ret = "raise"
                  THEN Finish(tool, args, r.out) /\ UNCHANGED sent
                  ELSE IF ~Truthy(r.out.val)
                       THEN Finish(tool, args, Return(Str(VLLM_NO_MODELS)))
                            /\ UNCHANGED sent
                  ELSE Suspend(tool, args, "post",
                               Request("POST", VLLM_URL \o VllmPath(t), DEFAULT_TIMEOUT,
                                       VllmPayload(t, args, r.out.val)))
    /\ UNCHANGED <<caller, disk, server, stateFile, procTable, state, base_url>>

vllm_chat ==
    \E m \in MessageLists, sp \in SystemPrompts, mo \in ModelArgs, s \in Samplings :
        VllmCall("vllm_chat", WithSampling(ChatArgs(m, sp, mo), s))

vllm_chat_models == VllmModels("vllm_chat")

vllm_chat_response ==
    /\ pc = "post"
    /\ tool = "vllm_chat"
    /\ \E resp \in PostResponses :
           /\ received' = Append(received, resp)
           /\ Finish(tool, args, vllm_chat_result(resp))
    /\ UNCHANGED <<caller, disk, server, stateFile, procTable, model_cache, state, base_url, sent>>

vllm_complete ==
    \E st \in StopLists, mo \in ModelArgs, s \in Samplings :
        VllmCall("vllm_complete", WithSampling(CompleteArgs(st, mo), s))

vllm_complete_models == VllmModels("vllm_complete")

vllm_complete_response ==
    /\ pc = "post"
    /\ tool = "vllm_complete"
    /\ \E resp \in PostResponses :
           /\ received' = Append(received, resp)
           /\ Finish(tool, args, vllm_complete_result(resp))
    /\ UNCHANGED <<caller, disk, server, stateFile, procTable, model_cache, state, base_url, sent>>

\* the outcome goes back to the calling agent; the coroutine's locals are gone
Reply ==
    /\ pc = "done"
    /\ pc' = "idle"
    /\ tool' = "none"
    /\ args' = NoArgs
    /\ state' = None
    /\ base_url' = ""
    /\ sent' = <<>>
    /\ received' = <<>>
    /\ result' = NoResult
    /\ prev' = IF tool \in StatusTools
               THEN [tool |-> tool, received |-> received, result |-> result,
                     stale |-> FALSE]
               ELSE NoPrev
    /\ UNCHANGED <<caller, disk, server, stateFile, procTable, model_cache>>

\* the launcher and the operating system, between two invocations: the state
\* file is written or removed, processes start and exit.  A tool reads both
\* only in _read_state, before its first await, so a change during an
\* invocation shows no earlier than the next one.
Launcher ==
    /\ server = "llama"
    /\ pc = "idle"
    /\ stateFile' \in FileContents
    /\ procTable' \in ProcTables
    /\ <<stateFile', procTable'>> # <<stateFile, procTable>>
    /\ prev' = IF prev = NoPrev THEN NoPrev ELSE [prev EXCEPT !.stale = TRUE]
    /\ UNCHANGED <<caller, disk, server, model_cache, pc, tool, args, state, base_url, sent,
                   received, result>>

Init ==
    /\ server \in {"llama", "vllm"}
    /\ stateFile \in IF server = "llama" THEN FileContents ELSE {File("absent", None)}
    /\ procTable \in IF server = "llama" THEN ProcTables ELSE {[p \in Pids |-> NoEntry]}
    /\ model_cache = None
    /\ pc = "idle"
    /\ tool = "none"
    /\ args = NoArgs
    /\ state = None
    /\ base_url = ""
    /\ sent = <<>>
    /\ received = <<>>
    /\ result = NoResult
    /\ prev = NoPrev
    /\ disk = NoDisk
    /\ caller = NoCaller

Next ==
    \/ llama_status
    \/ llama_status_health
    \/ llama_chat
    \/ llama_chat_response
    \/ llama_complete
    \/ llama_complete_response
    \/ vllm_status
    \/ vllm_status_models
    \/ vllm_chat
    \/ vllm_chat_models
    \/ vllm_chat_response
    \/ vllm_complete
    \/ vllm_complete_models
    \/ vllm_complete_response
    \/ Reply
    \/ Launcher

Spec == Init /\ [][Next]_vars

(***************************************************************************)
(* Concurrent vLLM invocations.  FastMCP runs each tool call as a task of  *)
(* one event loop: a task runs alone from one await to the next, and tasks *)
(* interleave at the awaits.  _get_models has two of them: the GET itself, *)
(* and the exit of its `async with`, which closes the client after         *)
(* _model_cache was written and the value to return was computed from the  *)
(* task's own `data`.  Here pc, tool, args, sent, received and result are  *)
(* functions of the task.                                                  *)
(***************************************************************************)
Tasks == {"t1", "t2"}

ConcurrentCalls ==
    {[tool |-> "vllm_chat",
      args |-> ChatArgs(List(<<Message("user", "hi")>>), None, mo)] :
         mo \in {None, Str("m9")}}
    \cup {[tool |-> "vllm_complete", args |-> CompleteArgs(None, None)]}

Catalog(ids) ==
    Response(200, "application/json", "{\"data\":[...]}",
             Dict([data |-> List([i \in DOMAIN ids |-> Dict([id |-> Str(ids[i])])])]))
ConcurrentCatalogs ==
    {Fault("ConnectError", "All connection attempts failed"),
     Response(200, "application/json", "[]", List(<<>>)),
     Catalog(<<>>), Catalog(<<"m1", "m2">>), Catalog(<<"m2", "m1">>)}
ConcurrentPosts ==
    {Response(500, "text/plain", "Internal Server Error", InvalidJSON),
     Response(200, "application/json", "{\"choices\":[]}",
              Dict([choices |-> List(<<>>)]))}

\* resolve_model that looks the default model up in the shared cache
resolve_model_shared(a, resp, cache) ==
    IF Truthy(a.model) THEN Return(a.model)
    ELSE IF get_models(resp, cache).out.ret = "raise" THEN get_models(resp, cache).out
    ELSE IF ~HasGet(cache) THEN Return(None)
    ELSE LET models == Get(cache, "data", List(<<>>))
             first == Index0(models)
         IN  IF ~Truthy(models) THEN Return(None)
             ELSE IF first.ret = "raise" THEN first
             ELSE IF ~HasGet(first.val) THEN Raise("AttributeError")
             ELSE Return(Get(first.val, "id", None))

\* `if not model: model = await _get_default_model()`: the model a generation
\* tool forwards, given its arguments and the answer to its own catalog query
resolve_model(a, resp, cache) ==
    IF Truthy(a.model) THEN Return(a.model)
    ELSE get_default_model(resp, cache).out

TaskPost(i, t, a, model) ==
    /\ pc' = [pc EXCEPT ![i] = "post"]
    /\ sent' = [sent EXCEPT ![i] =
                   Append(@, Request("POST", VLLM_URL \o VllmPath(t), DEFAULT_TIMEOUT,
                                     VllmPayload(t, a, model)))]

TaskFinish(i, r) ==
    /\ pc' = [pc EXCEPT ![i] = "done"]
    /\ result' = [result EXCEPT ![i] = r]

\* a task enters vllm_chat / vllm_complete and runs to its first await
task_call ==
    \E i \in Tasks, c \in ConcurrentCalls :
        /\ pc[i] = "idle"
        /\ tool' = [tool EXCEPT ![i] = c.tool]
        /\ args' = [args EXCEPT ![i] = c.args]
        /\ IF Truthy(c.args.model)
           THEN TaskPost(i, c.tool, c.args, resolve_model(c.args, None, model_cache).val)
           ELSE /\ pc' = [pc EXCEPT ![i] = "models"]
                /\ sent' = [sent EXCEPT ![i] = Append(@, ModelsRequest)]
        /\ UNCHANGED <<caller, disk, server, stateFile, procTable, model_cache, state, base_url,
                       received, result, prev>>

\* the GET of _get_models is answered: the cache is written, and the task
\* suspends again while the client closes
task_models ==
    \E i \in Tasks, resp \in ConcurrentCatalogs :
        /\ pc[i] = "models"
        /\ received' = [received EXCEPT ![i] = Append(@, resp)]
        /\ model_cache' = get_models(resp, model_cache).cache
        /\ pc' = [pc EXCEPT ![i] = "close"]
        /\ UNCHANGED <<caller, disk, server, stateFile, procTable, tool, args, state, base_url,
                       sent, result, prev>>

\* _get_models returns to _get_default_model and to the tool, which goes on
\* to its POST or returns
task_close ==
    \E i \in Tasks :
        /\ pc[i] = "close"
        /\ LET r == resolve_model(args[i], received[i][1], model_cache)
           IN  IF r.ret = "raise"
               THEN TaskFinish(i, r) /\ UNCHANGED sent
               ELSE IF ~Truthy(r.val)
                    THEN TaskFinish(i, Return(Str(VLLM_NO_MODELS))) /\ UNCHANGED sent
               ELSE TaskPost(i, tool[i], args[i], r.val) /\ UNCHANGED result
        /\ UNCHANGED <<caller, disk, server, stateFile, procTable, model_cache, tool, args, state,
                       base_url, received, prev>>

\* the POST is answered and the tool returns
task_response ==
    \E i \in Tasks, resp \in ConcurrentPosts :
        /\ pc[i] = "post"
        /\ received' = [received EXCEPT ![i] = Append(@, resp)]
        /\ TaskFinish(i, IF tool[i] = "vllm_chat" THEN vllm_chat_result(resp)
                         ELSE vllm_complete_result(resp))
        /\ UNCHANGED <<caller, disk, server, stateFile, procTable, model_cache, tool, args, state,
                       base_url, sent, prev>>

\* the result goes back to the client and the task ends
task_reply ==
    \E i \in Tasks :
        /\ pc[i] = "done"
        /\ pc' = [pc EXCEPT ![i] = "idle"]
        /\ tool' = [tool EXCEPT ![i] = "none"]
        /\ args' = [args EXCEPT ![i] = NoArgs]
        /\ sent' = [sent EXCEPT ![i] = <<>>]
        /\ received' = [received EXCEPT ![i] = <<>>]
        /\ result' = [result EXCEPT ![i] = NoResult]
        /\ UNCHANGED <<caller, disk, server, stateFile, procTable, model_cache, state, base_url, prev>>

InitConcurrent ==
    /\ server = "vllm"
    /\ stateFile = File("absent", None)
    /\ procTable = [p \in Pids |-> NoEntry]
    /\ model_cache = None
    /\ pc = [i \in Tasks |-> "idle"]
    /\ tool = [i \in Tasks |-> "none"]
    /\ args = [i \in Tasks |-> NoArgs]
    /\ state = None
    /\ base_url = ""
    /\ sent = [i \in Tasks |-> <<>>]
    /\ received = [i \in Tasks |-> <<>>]
    /\ result = [i \in Tasks |-> NoResult]
    /\ prev = NoPrev
    /\ disk = NoDisk
    /\ caller = NoCaller

NextConcurrent ==
    \/ task_call
    \/ task_models
    \/ task_close
    \/ task_response
    \/ task_reply

SpecConcurrent == InitConcurrent /\ [][NextConcurrent]_vars

(***************************************************************************)
(* scripts/registry.py: save_config.  One run of the registry CLI saves a  *)
(* configuration; it can fail at each system call and the process can be   *)
(* killed between any two of them.                                         *)
(***************************************************************************)
ModelEntry(path, aliases) ==
    MkDict([path |-> Str(path), aliases |-> aliases,
            description |-> Str("Model: " \o path)])
Config(models) ==
    Dict([models |-> models, models_dir |-> Str("/home/u/models")])
RegistryConfigs ==
    {Config(EmptyDict),
     Config(Dict([qwen |-> ModelEntry("qwen.gguf", Missing)])),
     Config(Dict([qwen |-> ModelEntry("qwen.gguf", List(<<Str("q")>>)),
                  phi |-> ModelEntry("phi.gguf", Missing)]))}

\* json.dump(config, f, indent=2) followed by f.write("\n"): the chunks that
\* reach the file, in order
Chunk(part, config) == [part |-> part, of |-> config]
Dump(config) ==
    <<Chunk("{", config), Chunk("models_dir", config), Chunk("models", config),
      Chunk("}", config), Chunk("\n", config)>>
NewFile(data) == [exists |-> TRUE, data |-> data]

\* tempfile.mkstemp(dir=CONFIG_FILE.parent, suffix=".tmp"): a new, empty file
mkstemp(d) == [d EXCEPT !.tmp_path = NewFile(<<>>)]
\* a write that goes to CONFIG_FILE itself
write_config_file(d, chunk) ==
    [d EXCEPT !.config_file = NewFile(IF d.tmp_path.data = <<>> THEN <<chunk>>
                                      ELSE Append(d.config_file.data, chunk)),
              !.tmp_path = NewFile(Append(d.tmp_path.data, chunk))]

\* one write of the dump reaches the temp file
write(d, chunk) == [d EXCEPT !.tmp_path = NewFile(Append(d.tmp_path.data, chunk))]
\* os.replace(tmp_path, CONFIG_FILE): an atomic rename
replace(d) == [config_file |-> d.tmp_path, tmp_path |-> NoFile]
\* os.unlink(tmp_path)
unlink(d) == [d EXCEPT !.tmp_path = NoFile]

RegistryStep(where, r) ==
    /\ pc' = where
    /\ result' = r
    /\ UNCHANGED <<server, stateFile, procTable, model_cache, state, base_url,
                   sent, received, prev>>

\* lines 44-46: the directory is made and the temp file is created, or one
\* of the two raises before the try block is entered
save_config ==
    /\ server = "registry"
    /\ pc = "idle"
    /\ \E config \in RegistryConfigs :
           /\ args' = config
           /\ \/ /\ disk' = mkstemp(disk)
                 /\ RegistryStep("write", NoResult)
              \/ /\ UNCHANGED disk
                 /\ RegistryStep("done", Raise("PermissionError"))
    /\ tool' = "save_config"
    /\ UNCHANGED caller

\* lines 48-50: the next chunk is written, or the write raises
save_config_write ==
    /\ pc = "write"
    /\ LET n == Len(disk.tmp_path.data)
       IN  \/ /\ n < Len(Dump(args))
              /\ disk' = write(disk, Dump(args)[n + 1])
              /\ RegistryStep(IF n + 1 = Len(Dump(args)) THEN "replace" ELSE "write",
                              NoResult)
              /\ UNCHANGED <<tool, args, caller>>
           \/ /\ UNCHANGED <<disk, tool, args, caller>>
              /\ RegistryStep("except", NoResult)

\* line 51: the rename succeeds and save_config returns, or it raises
save_config_replace ==
    /\ pc = "replace"
    /\ \/ /\ disk' = replace(disk)
          /\ RegistryStep("done", Return(None))
       \/ /\ UNCHANGED disk
          /\ RegistryStep("except", NoResult)
    /\ UNCHANGED <<tool, args, caller>>

\* lines 52-54: the temp file is removed and the exception is raised again
save_config_except ==
    /\ pc = "except"
    /\ disk' = unlink(disk)
    /\ RegistryStep("done", Raise("OSError"))
    /\ UNCHANGED <<tool, args, caller>>

\* the process is killed (a signal, a power cut) inside save_config
Crash ==
    /\ pc \in {"write", "replace", "except"}
    /\ RegistryStep("done", [ret |-> "killed"])
    /\ UNCHANGED <<disk, tool, args, caller>>

\* the process ends; a temp file left by a killed run stays in the directory
\* under a name of its own that no later run uses
Exit ==
    /\ server = "registry"
    /\ pc = "done"
    /\ disk' = [disk EXCEPT !.tmp_path = NoFile]
    /\ args' = NoArgs
    /\ tool' = "none"
    /\ caller' = NoCaller
    /\ RegistryStep("idle", NoResult)

(***************************************************************************)
(* scripts/registry.py: load_config and add_model.  `registry.py add` runs *)
(* from its entry to the creation of save_config's temp file in one step;  *)
(* the save then goes on system call by system call as above.              *)
(***************************************************************************)
\* the Namespace argparse hands to add_model
Namespace(name, path, description, context_size, gpu_layers, alias) ==
    [path |-> path, description |-> description, name |-> name,
     context_size |-> context_size, gpu_layers |-> gpu_layers, alias |-> alias]
\* --alias is action="append": None without the flag, else a non-empty list
\* --description, --context-size and --gpu-layers: absent, or given; an int
\* option can be given as 0
Options == {<<None, None, None>>, <<Str("d"), Num(0), Num(99)>>,
            <<None, Num(4096), None>>}
AddArgs ==
    {Namespace(name, "new.gguf", o[1], o[2], o[3], alias) :
        name \in {"qwen", "phi"},
        o \in Options,
        alias \in {None, List(<<Str("a")>>), List(<<Str("q"), Str("b")>>)}}

\* registry files written by hand rather than by save_config
HandEdited ==
    {Dict([models_dir |-> Str("/home/u/models")]),
     Config(Dict([qwen |-> None])),
     Config(Dict([qwen |-> ModelEntry("qwen.gguf", List(<<Str("q")>>)),
                  phi |-> ModelEntry("phi.gguf", List(<<>>))]))}
RegistryFiles == RegistryConfigs \cup HandEdited

\* the configuration load_config makes up when there is no file
DefaultConfig ==
    Dict([models |-> EmptyDict,
          models_dir |-> Str("/home/u/models"),
          defaults |-> Dict([host |-> Str("127.0.0.1"), port |-> Num(30000),
                             context_size |-> Num(8192), gpu_layers |-> Num(99),
                             threads |-> Num(8), flash_attn |-> Bool(TRUE)])])

\* json.load(f): the document the chunks spell, when they spell a whole one
\* (the newline after it is not needed)
load(file) ==
    IF /\ Len(file.data) >= 4
       /\ SubSeq(file.data, 1, 4) = SubSeq(Dump(file.data[1].of), 1, 4)
    THEN Return(file.data[1].of)
    ELSE Raise("JSONDecodeError")

\* lines 23-39
load_config(d) ==
    IF ~d.config_file.exists THEN Return(DefaultConfig) ELSE load(d.config_file)

\* `k in v` can be evaluated: v is a container
IsContainer(v) == v.t \in {"obj", "list", "str"}
\* `k in v` for a str k: a key of a dict, an element of a list, a substring
IsIn(k, v) ==
    CASE v.t = "obj"  -> k \in DOMAIN v.f
      [] v.t = "list" -> \E i \in DOMAIN v.l : v.l[i] = Str(k)
      [] v.t = "str"  -> \E i \in 1..(Len(v.s) - Len(k) + 1) :
                             SubSeq(v.s, i, i + Len(k) - 1) = k

\* d[k] = v
SetItem(d, k, v) == Dict([j \in DOMAIN d.f \cup {k} |-> IF j = k THEN v ELSE d.f[j]])

\* lines 61-71 and 77: the new entry; `aliases` is what line 77 may put in
\* when the command line gave no alias
model_entry(a, aliases) ==
    MkDict([path |-> Str(a.path),
            aliases |-> IF Truthy(a.alias) THEN a.alias ELSE aliases,
            description |-> IF Truthy(a.description) THEN a.description
                            ELSE Str("Model: " \o a.name),
            context_size |-> IF Truthy(a.context_size) THEN a.context_size ELSE Missing,
            gpu_layers |-> IF Truthy(a.gpu_layers) THEN a.gpu_layers ELSE Missing])

\* an add that stores the new entry as the command line gives it
add_model_config_overwrite(a, config) ==
    IF "models" \notin DOMAIN config.f THEN Raise("KeyError")
    ELSE IF config.f.models.t # "obj" THEN Raise("TypeError")
    ELSE Return([config EXCEPT !.f.models =
                    SetItem(config.f.models, a.name, model_entry(a, Missing))])

\* lines 61-79: the configuration add_model hands to save_config, or the
\* exception that ends it before
add_model_config(a, config) ==
    IF "models" \notin DOMAIN config.f THEN Raise("KeyError")
    ELSE LET models == config.f.models
             updating == IsIn(a.name, models) /\ ~Truthy(a.alias)
             existing == models.f[a.name]
             store(aliases) ==
                 Return([config EXCEPT !.f.models =
                            SetItem(models, a.name, model_entry(a, aliases))])
         IN  IF models.t # "obj" THEN Raise("TypeError")
             ELSE IF ~updating THEN store(Missing)
             ELSE IF ~IsContainer(existing) THEN Raise("TypeError")
             ELSE IF ~IsIn("aliases", existing) THEN store(Missing)
             ELSE IF existing.t # "obj" THEN Raise("TypeError")
             ELSE store(existing.f.aliases)

\* the frame of the command that called save_config
Frame(t, a) == [tool |-> t, args |-> a]

\* lines 59-80, and lines 44-46 of the save_config it calls
add_model ==
    /\ server = "registry"
    /\ pc = "idle"
    /\ \E a \in AddArgs :
           LET loaded == load_config(disk)
               r == IF loaded.ret = "raise" THEN loaded
                    ELSE add_model_config(a, loaded.val)
           IN  \/ /\ r.ret = "raise"
                  /\ tool' = "add_model"
                  /\ args' = a
                  /\ UNCHANGED <<disk, caller>>
                  /\ RegistryStep("done", r)
               \/ /\ r.ret = "return"
                  /\ tool' = "save_config"
                  /\ args' = r.val
                  /\ caller' = Frame("add_model", a)
                  /\ \/ /\ disk' = mkstemp(disk)
                        /\ RegistryStep("write", NoResult)
                     \/ /\ UNCHANGED disk
                        /\ RegistryStep("done", Raise("PermissionError"))

InitRegistry ==
    /\ server = "registry"
    /\ stateFile = File("absent", None)
    /\ procTable = [p \in Pids |-> NoEntry]
    /\ model_cache = None
    /\ pc = "idle"
    /\ tool = "none"
    /\ args = NoArgs
    /\ state = None
    /\ base_url = ""
    /\ sent = <<>>
    /\ received = <<>>
    /\ result = NoResult
    /\ prev = NoPrev
    /\ disk \in {[config_file |-> f, tmp_path |-> NoFile] :
                    f \in {NoFile} \cup {NewFile(Dump(c)) : c \in RegistryFiles}}
    /\ caller = NoCaller

NextRegistry ==
    \/ save_config
    \/ add_model
    \/ save_config_write
    \/ save_config_replace
    \/ save_config_except
    \/ Crash
    \/ Exit

SpecRegistry == InitRegistry /\ [][NextRegistry]_vars

(***************************************************************************)
(* Properties.                                                             *)
(***************************************************************************)
LlamaTools == {"llama_status", "llama_chat", "llama_complete"}
ChatTools == {"llama_chat", "vllm_chat"}
GenerationTools == {"llama_chat", "llama_complete", "vllm_chat", "vllm_complete"}

Ended == pc = "done"
ReturnedText(text) == result = Return(Str(text))
ReturnsStr == result.ret = "return" /\ result.val.t = "str"
Last(q) == q[Len(q)]

\* the state file is a JSON object
FileIsObject == stateFile.kind = "json" /\ stateFile.val.t = "obj"
RecordedPid == IF "pid" \in DOMAIN stateFile.val.f THEN stateFile.val.f.pid ELSE None
RecordedHost ==
    IF "host" \in DOMAIN stateFile.val.f THEN stateFile.val.f.host ELSE Str("127.0.0.1")
PidIsSet == FileIsObject /\ RecordedPid \notin {None, Num(0)}
PidEntry == IF RecordedPid.n \in DOMAIN procTable THEN procTable[RecordedPid.n] ELSE NoEntry
\* the recorded pid is a live process whose command line names llama-server
Validated == PidIsSet /\ PidEntry.exists /\ PidEntry.readable /\ PidEntry.hasName
LoopbackNames == {"127.0.0.1", "localhost", "0.0.0.0", "::1"}
HostIsLoopback == RecordedHost.t = "str" /\ RecordedHost.s \in LoopbackNames

\* C1: on the llama.cpp path, whenever the validated state names a host other
\* than 127.0.0.1, localhost, 0.0.0.0 or ::1, llama_status, llama_chat and
\* llama_complete each return the host-rejected text naming that host, and
\* the invocation issues no HTTP request.
C1_HostRejected ==
    (Ended /\ tool \in LlamaTools /\ Validated /\ PidEntry.decodable /\ ~HostIsLoopback)
        => /\ ReturnedText("Error: Host '" \o Format(RecordedHost)
                           \o "' not allowed. Only loopback addresses permitted.")
           /\ sent = <<>>

\* C2: every tool invocation, whatever the state file, the process table and
\* the backend's answers hold, ends by returning a string; no exception
\* leaves the tool function.
C2_AlwaysReturnsString == Ended => ReturnsStr

\* C3: _read_state returns a state only when the recorded pid has a /proc
\* entry whose command line contains llama-server; when the pid has no entry,
\* or has an entry whose command line lacks the name, it returns not-running.
C3_PidValidation ==
    (tool \in LlamaTools /\ pc # "idle") =>
        /\ state # None => (PidIsSet /\ PidEntry.exists /\ PidEntry.hasName)
        /\ (PidIsSet /\ (~PidEntry.exists \/ ~PidEntry.hasName)) =>
               /\ state = None
               /\ ReturnedText(IF tool = "llama_status"
                               THEN "llama-server is not running. Use /llama:serve to start it."
                               ELSE "Error: llama-server is not running. Use /llama:serve to start it.")

\* C4: when the state file is absent, is not parsable as structured data, or
\* holds no pid or a falsy pid, _read_state returns not-running: a value, not
\* an error.
C4_NoStateIsNotRunning ==
    (tool \in LlamaTools /\ pc # "idle"
       /\ (stateFile.kind \in {"absent", "badutf8", "badjson"}
           \/ (stateFile.kind = "json" /\ ~PidIsSet))) =>
        /\ state = None
        /\ ReturnedText(IF tool = "llama_status"
                        THEN "llama-server is not running. Use /llama:serve to start it."
                        ELSE "Error: llama-server is not running. Use /llama:serve to start it.")

\* C5: whenever the state reader yields not-running, llama_status returns
\* exactly the not-running hint, llama_chat and llama_complete return the
\* not-running error, and the invocation issues no HTTP request.
C5_NotRunningNoNetwork ==
    (tool \in LlamaTools /\ pc # "idle"
       /\ read_state(stateFile, procTable) = Return(None)) =>
        /\ Ended
        /\ sent = <<>>
        /\ ReturnedText(IF tool = "llama_status"
                        THEN "llama-server is not running. Use /llama:serve to start it."
                        ELSE "Error: llama-server is not running. Use /llama:serve to start it.")

\* C5 witness: llama_status ran with no state file and gave the hint
C5_Witness ==
    /\ Ended
    /\ tool = "llama_status"
    /\ stateFile.kind = "absent"
    /\ sent = <<>>
    /\ ReturnedText("llama-server is not running. Use /llama:serve to start it.")

\* the messages a chat tool forwarded, once it has issued its POST
PostSent == sent # <<>> /\ Last(sent).method = "POST"
Forwarded == Last(sent).json.f.messages
StartsWithSystem(m) ==
    /\ m.l # <<>>
    /\ "role" \in DOMAIN m.l[1].f
    /\ m.l[1].f.role = Str("system")
SystemMessage(sp) == Dict([content |-> sp, role |-> Str("system")])

\* C6 as stated: on both backends, a supplied system prompt is prepended as a
\* leading system message when the messages do not start with a system-role
\* message, has no effect when they do, and with no system prompt supplied
\* the messages are forwarded unchanged.
C6_MergeAnySuppliedPrompt ==
    (tool \in ChatTools /\ PostSent) =>
        LET m == args.messages
            sp == args.system_prompt
        IN  /\ sp = None => Forwarded = m
            /\ (sp # None /\ StartsWithSystem(m)) => Forwarded = m
            /\ (sp # None /\ ~StartsWithSystem(m)) =>
                   Forwarded = List(<<SystemMessage(sp)>> \o m.l)

\* C6 amended: on both backends, a supplied non-empty system prompt is
\* prepended as a leading system message when the messages do not start with
\* a system-role message and has no effect when they do; with no system
\* prompt, or an empty one, the messages are forwarded unchanged.
C6_MergeNonEmptyPrompt ==
    (tool \in ChatTools /\ PostSent) =>
        LET m == args.messages
            sp == args.system_prompt
        IN  /\ sp \in {None, Str("")} => Forwarded = m
            /\ (sp \notin {None, Str("")} /\ StartsWithSystem(m)) => Forwarded = m
            /\ (sp \notin {None, Str("")} /\ ~StartsWithSystem(m)) =>
                   Forwarded = List(<<SystemMessage(sp)>> \o m.l)

\* C6 witness: "be terse" was put in front of [user "hi"]
C6_Witness ==
    /\ tool \in ChatTools
    /\ PostSent
    /\ args.system_prompt = Str("be terse")
    /\ args.messages = List(<<Message("user", "hi")>>)
    /\ Forwarded = List(<<Message("system", "be terse"), Message("user", "hi")>>)

\* the answer to the POST of a generation tool, once the tool has ended
PostAnswered == Ended /\ PostSent /\ Len(received) = Len(sent)
Answer == Last(received)
AnswerIs200 == Answer.kind = "response" /\ Answer.status = 200
AnswerIsObject == AnswerIs200 /\ Answer.parsed.t = "obj"

\* C7: when the backend answers the chat endpoint with HTTP 200 and a body
\* whose choices list is empty, chat returns "Error: No response from model",
\* which is none of the transport-failure outcomes.
C7_EmptyChoices ==
    (tool \in ChatTools /\ PostAnswered /\ AnswerIsObject
       /\ "choices" \in DOMAIN Answer.parsed.f
       /\ Answer.parsed.f.choices = List(<<>>))
        => ReturnedText("Error: No response from model")

\* C7 witness: a chat tool got {"choices":[]} and returned the literal
C7_Witness ==
    /\ tool = "llama_chat"
    /\ PostAnswered
    /\ AnswerIs200
    /\ Answer.text = "{\"choices\":[]}"
    /\ ReturnedText("Error: No response from model")

\* C8: a 2xx answer that lacks the choices field is reported as an invalid
\* response, an outcome distinct from the one for a present but empty
\* choices field.
C8_MissingChoicesIsMalformed ==
    (tool \in {"llama_chat", "vllm_chat", "vllm_complete"} /\ PostAnswered
       /\ AnswerIsObject /\ "choices" \notin DOMAIN Answer.parsed.f)
        => /\ ReturnsStr
           /\ StartsWith(result.val.s, "Error: Invalid response from ")
           /\ result.val.s # "Error: No response from model"

Contains(s, sub) ==
    \E i \in 1..(Len(s) - Len(sub) + 1) : SubSeq(s, i, i + Len(sub) - 1) = sub

\* C9: whenever an HTTP request of an operation runs past its time budget
\* (120 for the generation calls, 5 for the health and model-listing probes),
\* the invocation returns the Timeout outcome, whose message states that
\* budget.
C9_TimeoutReported ==
    (Ended /\ received # <<>> /\ Len(received) = Len(sent)
       /\ Answer.kind = "fault" /\ Answer.exc \in {"ConnectTimeout", "ReadTimeout"})
        => /\ ReturnsStr
           /\ StartsWith(result.val.s, "Error: Request timed out after ")
           /\ Contains(result.val.s, ToString(Last(sent).timeout))

\* C10: whenever the backend refuses or fails the connection, chat and
\* complete return the Unreachable outcome on both backends, also when the
\* vLLM caller named no model.
C10_ConnectionFailureIsUnreachable ==
    (Ended /\ tool \in GenerationTools /\ received # <<>> /\ Len(received) = Len(sent)
       /\ Answer.kind = "fault" /\ Answer.exc = "ConnectError")
        => /\ ReturnsStr
           /\ StartsWith(result.val.s, "Error: Could not connect to ")

VllmGenerationTools == {"vllm_chat", "vllm_complete"}
\* the invocation named no model, so it resolves the default one
ResolvesDefault == tool \in VllmGenerationTools /\ ~Truthy(args.model) /\ pc # "idle"
\* the answer to this invocation's catalog query lists model entries
CatalogAnswered ==
    /\ ResolvesDefault
    /\ received # <<>>
    /\ received[1].kind = "response"
    /\ received[1].status = 200
    /\ received[1].parsed.t = "obj"
    /\ "data" \in DOMAIN received[1].parsed.f
    /\ received[1].parsed.f.data.t = "list"
    /\ \A i \in DOMAIN received[1].parsed.f.data.l :
           received[1].parsed.f.data.l[i].t = "obj"
Listed == received[1].parsed.f.data.l
NoModelsText == "Error: vLLM server at http://localhost:8000 has no models available."

\* C11: _get_default_model issues a fresh catalog query on every call and
\* resolves to the id of the first entry of that query's answer, in backend
\* order, whatever the cache holds; with an empty list it resolves to absent
\* (the tool then reports that no models are available).
C11_DefaultIsFirstOfFreshQuery ==
    /\ ResolvesDefault => sent # <<>> /\ sent[1] = ModelsRequest
    /\ CatalogAnswered =>
           IF Listed # <<>> /\ "id" \in DOMAIN Listed[1].f
           THEN /\ Len(sent) = 2
                /\ sent[2].method = "POST"
                /\ sent[2].json.f.model = Listed[1].f.id
           ELSE /\ pc = "done"
                /\ Len(sent) = 1
                /\ result = Return(Str(NoModelsText))

\* C11 witness: the catalog listed m1 then m2 and m1 was forwarded
C11_Witness ==
    /\ CatalogAnswered
    /\ tool = "vllm_chat"
    /\ Len(Listed) = 2
    /\ Listed[1].f.id = Str("m1")
    /\ Listed[2].f.id = Str("m2")
    /\ Len(sent) = 2
    /\ sent[2].json.f.model = Str("m1")

\* this step is _get_models returning from its GET with the answer CatalogAnswer'
CatalogStep == pc = "models" /\ Len(received') = Len(received) + 1
CatalogAnswer == Last(received)
\* the query succeeded: a 200 answer whose body is a JSON object
CatalogSuccess(resp) ==
    resp.kind = "response" /\ resp.status = 200 /\ resp.parsed # InvalidJSON
        /\ HasGet(resp.parsed)

\* C12: _get_models changes the model cache only on success.  On a network
\* error, a non-200 status or a malformed body the cache keeps its previous
\* value and the caller goes on with an empty model list (no exception); on a
\* successful query the cache equals the full response just received.
C12_CacheOnlyOnSuccess ==
    [][CatalogStep =>
          IF CatalogSuccess(CatalogAnswer')
          THEN model_cache' = CatalogAnswer'.parsed
          ELSE model_cache' = model_cache /\ result'.ret # "raise"]_vars

\* the outcome class of a status call
IsReport(r) == r.ret = "return" /\ "doc" \in DOMAIN r.val
StatusClass(r) ==
    IF r.ret = "raise" THEN "fault"
    ELSE IF IsReport(r) THEN "report " \o r.val.doc.f.status.s
    ELSE IF r.val.s = LLAMA_NOT_RUNNING_HINT THEN "not running"
    ELSE IF StartsWith(r.val.s, "Error: llama-server host") THEN "host rejected"
    ELSE IF StartsWith(r.val.s, "llama-server state exists but not responding")
         THEN "unreachable"
    ELSE IF r.val.s = VLLM_NOT_RESPONDING THEN "unreachable"
    ELSE "unhealthy"

\* a status call has ended that follows a status call of the same backend,
\* with the same state file and process table and the same answers of the backend
SecondStatus ==
    /\ Ended
    /\ tool \in StatusTools
    /\ prev # NoPrev
    /\ prev.tool = tool
    /\ ~prev.stale
    /\ prev.received = received

\* C13: status is idempotent.  Two consecutive status calls between which
\* neither the state file, nor the process table, nor the behaviour of the
\* backend changed end in the same outcome class, on both backends.
C13_StatusIdempotent ==
    SecondStatus => StatusClass(result) = StatusClass(prev.result)

\* C13 witness: a second vllm_status that found the cache left by the first
C13_Witness ==
    /\ SecondStatus
    /\ tool = "vllm_status"
    /\ StatusClass(result) = "report running"
    /\ model_cache = received[1].parsed
    /\ prev.result = result

\* C13 witness on the other backend
C13_WitnessLlama ==
    /\ SecondStatus
    /\ tool = "llama_status"
    /\ StatusClass(result) = "report running"

\* the state file was removed, or the process it records has exited
ServerGone == stateFile.kind = "absent" \/ (PidIsSet /\ ~PidEntry.exists)
NotRunningText ==
    IF tool = "llama_status" THEN LLAMA_NOT_RUNNING_HINT ELSE LLAMA_NOT_RUNNING_ERROR
\* what _read_state gives on the state file and process table as they are now
FreshState == read_state(stateFile, procTable)

\* C14: the server state is read again by every llama.cpp invocation and is
\* never cached.  The state an invocation works with is the one the state
\* file and the process table give during that invocation; once the file is
\* removed or the recorded process has exited the invocation reports
\* not-running without any request, whatever earlier invocations returned;
\* and no step of a tool changes the state file.
C14_StateNeverCached ==
    /\ []((tool \in LlamaTools /\ pc # "idle") =>
            /\ FreshState.ret = "return" => state = FreshState.val
            /\ ServerGone => (Ended /\ sent = <<>> /\ ReturnedText(NotRunningText)))
    /\ [][stateFile' # stateFile => (pc = "idle" /\ pc' = "idle")]_vars

\* C14 witness: a status call reported running, then the server went away and
\* the next status call reports not-running
C14_Witness ==
    /\ Ended
    /\ tool = "llama_status"
    /\ ServerGone
    /\ prev.tool = "llama_status"
    /\ prev.stale
    /\ StatusClass(prev.result) = "report running"
    /\ ReturnedText(LLAMA_NOT_RUNNING_HINT)

\* task i has issued its POST; the model it forwards
TaskPosted(i) == sent[i] # <<>> /\ Last(sent[i]).method = "POST"
TaskModel(i) == Last(sent[i]).json.f.model
\* the first entry of the answer to task i's own catalog query
OwnFirstEntry(i) ==
    IF received[i] = <<>> \/ received[i][1].kind # "response" THEN None
    ELSE LET body == received[i][1].parsed
         IN  IF body.t # "obj" \/ "data" \notin DOMAIN body.f THEN None
             ELSE IF body.f.data.t # "list" \/ body.f.data.l = <<>> THEN None
             ELSE Get(body.f.data.l[1], "id", None)

\* C15: under every interleaving of concurrent vLLM invocations, the model an
\* invocation forwards is the model its caller named or, when the caller
\* named none, the first entry of the answer to its own catalog query;
\* what another invocation wrote to the shared cache has no influence.
C15_ForwardedModelIsOwn ==
    \A i \in Tasks :
        TaskPosted(i) =>
            TaskModel(i) = IF Truthy(args[i].model) THEN args[i].model
                           ELSE OwnFirstEntry(i)

\* C15 witness: both tasks queried the catalog, t2's answer (m2 first) is the
\* one in the cache, and t1 forwards m1, the first entry of its own answer
C15_Witness ==
    /\ TaskPosted("t1")
    /\ ~Truthy(args["t1"].model)
    /\ TaskModel("t1") = Str("m1")
    /\ pc["t2"] \in {"close", "post"}
    /\ received["t2"] # <<>>
    /\ received["t2"][1] = Catalog(<<"m2", "m1">>)
    /\ model_cache = received["t2"][1].parsed

\* how many requests of a method the invocation has issued
Issued(method) == Cardinality({i \in DOMAIN sent : sent[i].method = method})
Generating == tool \in GenerationTools /\ pc # "idle"

\* C16 as stated: no retries.  A chat or complete invocation issues at most
\* one POST whatever its outcome and, on vLLM, at most one catalog GET, and
\* that GET only when the caller specified no model.
C16_NoRetries ==
    Generating =>
        /\ Issued("POST") <= 1
        /\ Issued("GET") <= 1
        /\ Issued("GET") = 1 => (server = "vllm" /\ args.model = None)

\* C16: no retries.  A chat or complete invocation issues at most one POST
\* whatever its outcome and, on vLLM, at most one catalog GET, and that GET
\* only when the caller specified no model or an empty one.
C16_NoRetriesFalsyModel ==
    Generating =>
        /\ Issued("POST") <= 1
        /\ Issued("GET") <= 1
        /\ Issued("GET") = 1 => (server = "vllm" /\ ~Truthy(args.model))
        /\ (server = "vllm" /\ Truthy(args.model)) => Issued("GET") = 0

\* C16 witness: vllm_complete queried the catalog once, posted once, met a
\* timeout and returned
C16_Witness ==
    /\ Ended
    /\ tool = "vllm_complete"
    /\ Issued("GET") = 1
    /\ Issued("POST") = 1
    /\ Last(received).kind = "fault"
    /\ IsTimeoutException(Last(received).exc)
    /\ ReturnedText(TimeoutText)

\* the POST was answered with a status that is not a success
AnswerIsErrorStatus ==
    PostAnswered /\ Answer.kind = "response" /\ IsErrorStatus(Answer.status)
StatusErrorPrefix == "Error: HTTP " \o ToString(Answer.status) \o " - "
\* what follows the status code in the returned text
Excerpt == SubSeq(result.val.s, Len(StatusErrorPrefix) + 1, Len(result.val.s))

\* C17: when the backend answers a chat or complete POST with a non-success
\* HTTP status, the tool returns the status-error text: it carries that
\* status code and an excerpt of the response body that is a prefix of the
\* body and at most 500 characters long.
C17_StatusErrorExcerpt ==
    (tool \in GenerationTools /\ AnswerIsErrorStatus) =>
        /\ ReturnsStr
        /\ StartsWith(result.val.s, StatusErrorPrefix)
        /\ Len(Excerpt) <= 500
        /\ StartsWith(Answer.text, Excerpt)

\* C17 witness: a 503 with a body of more than 500 characters, cut to 500
C17_Witness ==
    /\ tool = "llama_complete"
    /\ AnswerIsErrorStatus
    /\ Answer.status = 503
    /\ Len(Answer.text) > 500
    /\ Len(Excerpt) = 500
    /\ result.val.s = StatusErrorPrefix \o SubSeq(Answer.text, 1, 500)

\* the file holds the whole dump of some configuration
Complete(file) ==
    file.exists /\ file.data # <<>> /\ file.data = Dump(file.data[1].of)
Saving == tool = "save_config" /\ pc # "idle"

Payload == Last(sent).json.f
CompleteTools == {"llama_complete", "vllm_complete"}

\* C19: the forwarded payload has the wire shape of its backend, for every
\* input.  The model field is present only on vLLM; the token limit goes as
\* n_predict to llama.cpp's /completion and as max_tokens to every other
\* endpoint; stream is false; stop is present only when the caller gave a
\* non-empty stop list, and is that list; temperature and the token limit
\* are the caller's values, unchanged.
C19_PayloadWireShape ==
    (tool \in GenerationTools /\ PostSent) =>
        /\ "model" \in DOMAIN Payload <=> server = "vllm"
        /\ IF tool = "llama_complete"
           THEN /\ Last(sent).url = base_url \o "/completion"
                /\ "n_predict" \in DOMAIN Payload
                /\ "max_tokens" \notin DOMAIN Payload
                /\ Payload.n_predict = args.max_tokens
           ELSE /\ "max_tokens" \in DOMAIN Payload
                /\ "n_predict" \notin DOMAIN Payload
                /\ Payload.max_tokens = args.max_tokens
        /\ Payload.stream = Bool(FALSE)
        /\ "stop" \in DOMAIN Payload <=> (tool \in CompleteTools /\ Truthy(args.stop))
        /\ "stop" \in DOMAIN Payload => Payload.stop = args.stop
        /\ Payload.temperature = args.temperature

\* C19 witness: llama_complete with a stop list and a token limit of 0
C19_Witness ==
    /\ tool = "llama_complete"
    /\ PostSent
    /\ args.max_tokens = Num(0)
    /\ args.temperature = Float(0)
    /\ args.stop = List(<<Str("END")>>)
    /\ Payload.n_predict = Num(0)
    /\ Payload.stop = List(<<Str("END")>>)

\* within this invocation the state was validated, the host passed the
\* loopback check and the health probe answered 200
ProbedHealthy ==
    /\ Validated
    /\ HostIsLoopback
    /\ received # <<>>
    /\ Last(received).kind = "response"
    /\ Last(received).status = 200
RunningReport == IsReport(result) /\ result.val.doc.f.status = Str("running")

\* C20: llama_status returns a report with status "running" only if, in that
\* invocation, the state was validated, the host passed the loopback check
\* and the health probe answered 200; in every other case it returns a plain
\* diagnostic string, never a "running" report.
C20_RunningOnlyWhenHealthy ==
    (Ended /\ tool = "llama_status") =>
        /\ RunningReport => ProbedHealthy
        /\ ~ProbedHealthy => (ReturnsStr /\ ~IsReport(result))

\* the first half alone: a "running" report only after a healthy probe
RunningImpliesHealthy ==
    (Ended /\ tool = "llama_status" /\ RunningReport) => ProbedHealthy

\* the models the registry file holds
StoredModels == load(disk.config_file).val.f.models
\* a run of `registry.py add`, and the name it was given
Adding == caller.tool = "add_model"
AddedName == caller.args.name
\* the step with which the add stores its configuration: a rename that succeeds
Stores == Adding /\ pc = "replace" /\ result' = Return(None)
\* the entry is a JSON object with an "aliases" member
HasAliases(entry) == entry.t = "obj" /\ "aliases" \in DOMAIN entry.f

\* C21: an add on a name the registry file already has stores an entry for
\* that name whose aliases are the existing entry's aliases (none, if it had
\* none) when the command line gave no alias and the command line's aliases
\* when it gave some; in both cases the stored file has the same names as
\* before and every entry under another name is what it was.
C21_AddKeepsOrReplacesAliases ==
    [][(Stores /\ disk.config_file.exists /\ AddedName \in DOMAIN StoredModels.f)
         => LET a == caller.args
                old == StoredModels.f
                new == StoredModels'.f
            IN  /\ AddedName \in DOMAIN new
                /\ new[AddedName].f.path = Str(a.path)
                /\ IF Truthy(a.alias)
                   THEN /\ HasAliases(new[AddedName])
                        /\ new[AddedName].f.aliases = a.alias
                   ELSE /\ HasAliases(new[AddedName]) <=> HasAliases(old[AddedName])
                        /\ HasAliases(old[AddedName]) =>
                               new[AddedName].f.aliases = old[AddedName].f.aliases
                /\ DOMAIN new = DOMAIN old
                /\ \A k \in DOMAIN old \ {AddedName} : new[k] = old[k]]_vars

\* C21 witness: an add of "qwen" without an alias has returned; the stored
\* entry has the new path and still the aliases the registry had for "qwen",
\* and "phi" is still registered
C21_Witness ==
    /\ Adding
    /\ pc = "done"
    /\ result = Return(None)
    /\ AddedName = "qwen"
    /\ ~Truthy(caller.args.alias)
    /\ StoredModels.f.qwen.f.path = Str("new.gguf")
    /\ HasAliases(StoredModels.f.qwen)
    /\ StoredModels.f.qwen.f.aliases = List(<<Str("q")>>)
    /\ "phi" \in DOMAIN StoredModels.f

\* an add of "qwen" with aliases has returned: the stored entry has them, and
\* "phi" is registered with the aliases it had
C21_WitnessReplaced ==
    /\ Adding
    /\ pc = "done"
    /\ result = Return(None)
    /\ AddedName = "qwen"
    /\ caller.args.alias = List(<<Str("a")>>)
    /\ StoredModels.f.qwen.f.aliases = List(<<Str("a")>>)
    /\ "phi" \in DOMAIN StoredModels.f
    /\ StoredModels.f.phi = ModelEntry("phi.gguf", List(<<>>))

====
